---- MODULE Spec2Model ----
(***************************************************************************)
(* goverage: "go test -coverprofile" for several packages.                 *)
(*                                                                         *)
(* The source tree holds three revisions of the program:                   *)
(*   src/main.go           run / coverage / mergeProfiles (pairs profiles  *)
(*                         by index, no failure flag);                     *)
(*   src/README.md:45-331  run with hasFailedTest, mergeProfiles keyed by  *)
(*                         file name and sorted;                           *)
(*   src/unnamed/part_000  run that keeps the raw profile files and        *)
(*                         mergeProfiles that checks each file's mode line *)
(*                         and concatenates the files for                  *)
(*                         cover.ParseProfiles.                            *)
(* Spec         is the state machine of part_000's run;                    *)
(* SpecMerge    applies the three mergeProfiles to drawn collections of    *)
(*              run profiles of one mode and one block structure per file; *)
(* SpecMismatch does the same for collections whose runs may disagree on   *)
(*              a file's block structure.                                  *)
(***************************************************************************)
EXTENDS Integers, Sequences, FiniteSets, TLC

(***************************************************************************)
(* Bounds of the model.                                                    *)
(***************************************************************************)
MaxPkgs == 2
MaxRuns == 3

(***************************************************************************)
(* Coverage data.                                                          *)
(***************************************************************************)
Modes == {"set", "count", "atomic"}

\* File names of the instrumented sources, in lexicographic order.
FileNames == <<"a.go", "b.go">>

FileRank(f) == CHOOSE i \in 1..Len(FileNames) : FileNames[i] = f

\* The comparison of sort.Slice turned around.
FileNameGreater(f, g) == FileRank(f) > FileRank(g)

\* result[i].FileName < result[j].FileName (string comparison).
FileNameLess(f, g) == FileRank(f) < FileRank(g)

\* One line of a profile: name.go:line.column,line.column numberOfStatements count
Line(f, sl, sc, el, ec, n, c) ==
    [FileName |-> f, StartLine |-> sl, StartCol |-> sc, EndLine |-> el,
     EndCol |-> ec, NumStmt |-> n, Count |-> c]

\* cover.ProfileBlock of a line.
BlockOf(l) ==
    [StartLine |-> l.StartLine, StartCol |-> l.StartCol, EndLine |-> l.EndLine,
     EndCol |-> l.EndCol, NumStmt |-> l.NumStmt, Count |-> l.Count]

\* The position metadata of a block: everything but the count.
Pos(b) == <<b.StartLine, b.StartCol, b.EndLine, b.EndCol, b.NumStmt>>

SamePlace(b, c) ==
    /\ b.StartLine = c.StartLine /\ b.StartCol = c.StartCol
    /\ b.EndLine = c.EndLine /\ b.EndCol = c.EndCol

\* A raw profile file as "go test -coverprofile" writes it: the mode line and
\* the block lines; the file of zero bytes has mode "".
RawFile(m, ls) == [mode |-> m, lines |-> ls]

EmptyFile == RawFile("", <<>>)

\* What os.Open finds when the named file does not exist.
NoFile == RawFile("NoFile", <<>>)

RECURSIVE BitOr(_, _)
\* Go's x | y on non-negative integers.
BitOr(x, y) ==
    IF x = 0 THEN y
    ELSE IF y = 0 THEN x
    ELSE (IF x % 2 = 1 \/ y % 2 = 1 THEN 1 ELSE 0) + 2 * BitOr(x \div 2, y \div 2)

RECURSIVE Concat(_)
Concat(ss) == IF ss = <<>> THEN <<>> ELSE Head(ss) \o Concat(Tail(ss))

(***************************************************************************)
(* golang.org/x/tools/cover.ParseProfiles, the library call that all three *)
(* revisions parse a profile file with.  It groups the lines by file name, *)
(* sorts each file's blocks by start position, merges the samples of one   *)
(* location by the mode's rule (an inconsistent NumStmt is an error) and   *)
(* returns the profiles sorted by file name.                               *)
(***************************************************************************)
blocksByStartLess(bi, bj) ==
    \/ bi.StartLine < bj.StartLine
    \/ bi.StartLine = bj.StartLine /\ bi.StartCol < bj.StartCol

RECURSIVE InsertBlock(_, _)
\* One step of the insertion sort that sort.Sort runs on slices of at most 12
\* elements: b moves left past every block that starts after it.
InsertBlock(s, b) ==
    IF s # <<>> /\ blocksByStartLess(b, s[Len(s)])
    THEN Append(InsertBlock(SubSeq(s, 1, Len(s) - 1), b), s[Len(s)])
    ELSE Append(s, b)

RECURSIVE SortBlocks(_)
SortBlocks(s) ==
    IF s = <<>> THEN <<>>
    ELSE InsertBlock(SortBlocks(SubSeq(s, 1, Len(s) - 1)), s[Len(s)])

\* The combine rule of a sample with the block before it.
CombineCount(mode, old, new) ==
    IF mode = "set" THEN BitOr(old, new) ELSE old + new

RECURSIVE MergeSamples(_, _, _)
\* "Merge samples from the same location": acc is p.Blocks[:j], rest the blocks
\* not yet visited.  The result is the merged block list, or the error.
MergeSamples(mode, acc, rest) ==
    IF rest = <<>> THEN [err |-> "nil", blocks |-> acc]
    ELSE LET b == Head(rest)
             last == acc[Len(acc)]
         IN  IF SamePlace(b, last)
             THEN IF b.NumStmt # last.NumStmt
                  THEN [err |-> "inconsistent NumStmt", blocks |-> <<>>]
                  ELSE MergeSamples(mode,
                          [acc EXCEPT ![Len(acc)].Count =
                              CombineCount(mode, last.Count, b.Count)],
                          Tail(rest))
             ELSE MergeSamples(mode, Append(acc, b), Tail(rest))

\* The blocks of file f in the order of the lines.
BlocksOfFile(ls, f) ==
    LET own == SelectSeq(ls, LAMBDA l : l.FileName = f)
    IN  [i \in 1..Len(own) |-> BlockOf(own[i])]

ParseFile(mode, ls, f) ==
    LET sorted == SortBlocks(BlocksOfFile(ls, f))
    IN  MergeSamples(mode, <<sorted[1]>>, Tail(sorted))

\* cover.ParseProfiles of a file: [err, cps], cps sorted by file name.
ParseProfiles(file) ==
    LET present == SelectSeq(FileNames,
                       LAMBDA f : \E i \in 1..Len(file.lines) : file.lines[i].FileName = f)
        parsed == [i \in 1..Len(present) |-> ParseFile(file.mode, file.lines, present[i])]
    IN  IF \E i \in 1..Len(parsed) : parsed[i].err # "nil"
        THEN [err |-> "inconsistent NumStmt", cps |-> <<>>]
        ELSE [err |-> "nil",
              cps |-> [i \in 1..Len(present) |->
                          [FileName |-> present[i], Mode |-> file.mode,
                           Blocks |-> parsed[i].blocks]]]

(***************************************************************************)
(* part_000: mergeProfiles(profiles []string, covermode string).           *)
(***************************************************************************)
ModeName(m) ==
    CASE m = "set" -> <<"s", "e", "t">>
      [] m = "count" -> <<"c", "o", "u", "n", "t">>
      [] m = "atomic" -> <<"a", "t", "o", "m", "i", "c">>
      [] OTHER -> <<>>

\* fmt.Sprintf("mode: %s\n", m), byte by byte.
ModeLine(m) == <<"m", "o", "d", "e", ":", " ">> \o ModeName(m) \o <<"\n">>

\* The bytes of a raw profile file; a block line stands as two bytes.
FileBytes(file) ==
    IF file.mode \in {"", "NoFile"} THEN <<>>
    ELSE ModeLine(file.mode) \o Concat([i \in 1..Len(file.lines) |-> <<"l", "\n">>])

\* io.ReadFull(r, buf) with len(buf) = size: the bytes read (buf keeps its zero
\* bytes past them), their number and the error.
ReadFull(bytes, size) ==
    LET n == IF Len(bytes) < size THEN Len(bytes) ELSE size
    IN  [n |-> n,
         buf |-> [i \in 1..size |-> IF i <= n THEN bytes[i] ELSE "0"],
         err |-> IF n = size THEN "nil"
                 ELSE IF n = 0 THEN "EOF" ELSE "ErrUnexpectedEOF"]

RECURSIVE CopyProfilesUnchecked(_, _, _)
\* CopyProfiles without the comparison of the first bytes with expect.
CopyProfilesUnchecked(files, expect, acc) ==
    IF files = <<>> THEN [err |-> "nil", lines |-> acc]
    ELSE LET file == Head(files)
             rd == ReadFull(FileBytes(file), Len(expect))
         IN  IF file.mode = "NoFile" THEN CopyProfilesUnchecked(Tail(files), expect, acc)
             ELSE IF rd.n = 0 THEN CopyProfilesUnchecked(Tail(files), expect, acc)
             ELSE IF rd.err # "nil"
                  THEN [err |-> "malformed coverage profile", lines |-> <<>>]
             ELSE CopyProfilesUnchecked(Tail(files), expect, acc \o file.lines)

RECURSIVE CopyProfiles(_, _, _)
\* The loop over the profile files: acc holds the lines copied to mergedProfile
\* so far.  A file that cannot be opened (NoFile) or that is empty is skipped;
\* one whose first len(expect) bytes are not expect ends the merge.
CopyProfiles(files, expect, acc) ==
    IF files = <<>> THEN [err |-> "nil", lines |-> acc]
    ELSE LET file == Head(files)
             rd == ReadFull(FileBytes(file), Len(expect))
         IN  IF file.mode = "NoFile" THEN CopyProfiles(Tail(files), expect, acc)
             ELSE IF rd.n = 0 THEN CopyProfiles(Tail(files), expect, acc)
             ELSE IF rd.err # "nil" \/ rd.buf # expect
                  THEN [err |-> "malformed coverage profile", lines |-> <<>>]
             ELSE CopyProfiles(Tail(files), expect, acc \o file.lines)

\* mergeProfiles of part_000 of the files' contents: [err, cps].
mergeProfiles(files, covermode) ==
    LET cm == IF covermode = "" THEN "set" ELSE covermode
        copied == CopyProfiles(files, ModeLine(cm), <<>>)
    IN  IF copied.err # "nil" THEN [err |-> copied.err, cps |-> <<>>]
        ELSE ParseProfiles(RawFile(cm, copied.lines))

(***************************************************************************)
(* README.md:285-314: mergeProfiles(cpss [][]*cover.Profile), keyed by     *)
(* file name.                                                              *)
(***************************************************************************)
RECURSIVE MergeBlocksAdd(_, _, _)
\* MergeBlocks that adds the counts in every mode.
MergeBlocksAdd(p, dst, i) ==
    IF i > Len(p.Blocks) THEN [err |-> "nil", blocks |-> dst]
    ELSE IF i > Len(dst) THEN [err |-> "panic", blocks |-> dst]
    ELSE MergeBlocksAdd(p, [dst EXCEPT ![i].Count = @ + p.Blocks[i].Count], i + 1)

\* MergeBlocks that keeps the counts of the profile inserted first.
MergeBlocksKeepFirst(p, dst, i) == [err |-> "nil", blocks |-> dst]

RECURSIVE MergeBlocks(_, _, _)
\* for i, block := range p.Blocks: dst is profiles[p.FileName].Blocks.  The
\* index expression panics when p has more blocks than dst.
MergeBlocks(p, dst, i) ==
    IF i > Len(p.Blocks) THEN [err |-> "nil", blocks |-> dst]
    ELSE IF p.Mode \notin {"set", "count", "atomic"} THEN MergeBlocks(p, dst, i + 1)
    ELSE IF i > Len(dst) THEN [err |-> "panic", blocks |-> dst]
    ELSE MergeBlocks(p,
            [dst EXCEPT ![i].Count =
                IF p.Mode = "set" THEN BitOr(@, p.Blocks[i].Count)
                ELSE @ + p.Blocks[i].Count],
            i + 1)

RECURSIVE MergeIntoMap(_, _)
\* The two loops over cpss and ps, flattened: ps is the list of all profiles of
\* all runs in order; profiles is the map from file name to profile.
MergeIntoMap(ps, profiles) ==
    IF ps = <<>> THEN [err |-> "nil", profiles |-> profiles]
    ELSE LET p == Head(ps) IN
         IF p.FileName \notin DOMAIN profiles
         THEN MergeIntoMap(Tail(ps),
                 [f \in DOMAIN profiles \cup {p.FileName} |->
                     IF f = p.FileName THEN p ELSE profiles[f]])
         ELSE LET m == MergeBlocks(p, profiles[p.FileName].Blocks, 1) IN
              IF m.err # "nil" THEN [err |-> m.err, profiles |-> profiles]
              ELSE MergeIntoMap(Tail(ps),
                      [profiles EXCEPT ![p.FileName].Blocks = m.blocks])

RECURSIVE MapRange(_)
\* for _, p := range profiles: the values of the map in some order.
MapRange(profiles) ==
    IF DOMAIN profiles = {} THEN <<>>
    ELSE LET f == CHOOSE f \in DOMAIN profiles : TRUE
         IN  <<profiles[f]>> \o MapRange([g \in DOMAIN profiles \ {f} |-> profiles[g]])

RECURSIVE InsertProfile(_, _)
InsertProfile(s, p) ==
    IF s # <<>> /\ FileNameLess(p.FileName, s[Len(s)].FileName)
    THEN Append(InsertProfile(SubSeq(s, 1, Len(s) - 1), p), s[Len(s)])
    ELSE Append(s, p)

RECURSIVE SortSlice(_)
\* sort.Slice(result, func(i, j int) bool { return result[i].FileName < result[j].FileName })
SortSlice(s) ==
    IF s = <<>> THEN <<>>
    ELSE InsertProfile(SortSlice(SubSeq(s, 1, Len(s) - 1)), s[Len(s)])

mergeProfiles_readme(cpss) ==
    LET m == MergeIntoMap(Concat(cpss), <<>>)
    IN  IF m.err # "nil" THEN [err |-> m.err, cps |-> <<>>]
        ELSE [err |-> "nil", cps |-> SortSlice(MapRange(m.profiles))]

(***************************************************************************)
(* main.go:147-181: mergeProfiles(cpss [][]*cover.Profile), which pairs the *)
(* i-th profile of every run with the i-th profile of the first run.       *)
(***************************************************************************)
RECURSIVE SkipHeadEmpty(_)
\* "skip head empty profiles ([no test files])": cpss from its first non-empty
\* element on; cpss itself when every element is empty.
SkipHeadEmpty(cpss) ==
    IF \A i \in 1..Len(cpss) : Len(cpss[i]) = 0 THEN cpss
    ELSE IF Len(Head(cpss)) = 0 THEN SkipHeadEmpty(Tail(cpss))
    ELSE cpss

RECURSIVE AddBlocks(_, _, _, _)
\* for j, block := range cp.Blocks, into profile.Blocks, by profile.Mode.
AddBlocks(mode, dst, src, j) ==
    IF j > Len(src) THEN [err |-> "nil", blocks |-> dst]
    ELSE IF mode \notin {"set", "count", "atomic"} THEN AddBlocks(mode, dst, src, j + 1)
    ELSE IF j > Len(dst) THEN [err |-> "panic", blocks |-> dst]
    ELSE AddBlocks(mode,
            [dst EXCEPT ![j].Count =
                IF mode = "set" THEN BitOr(@, src[j].Count) ELSE @ + src[j].Count],
            src, j + 1)

RECURSIVE MergeRest(_, _, _)
\* for _, cps := range rest, for the i-th profile of result: cp := cps[i]
\* panics when a non-empty run has fewer than i+1 profiles.
MergeRest(profile, i, rest) ==
    IF rest = <<>> THEN [err |-> "nil", profile |-> profile]
    ELSE LET cps == Head(rest) IN
         IF Len(cps) = 0 THEN MergeRest(profile, i, Tail(rest))
         ELSE IF i > Len(cps) THEN [err |-> "panic", profile |-> profile]
         ELSE LET m == AddBlocks(profile.Mode, profile.Blocks, cps[i].Blocks, 1) IN
              IF m.err # "nil" THEN [err |-> m.err, profile |-> profile]
              ELSE MergeRest([profile EXCEPT !.Blocks = m.blocks], i, Tail(rest))

mergeProfiles_main(cpss0) ==
    LET cpss == SkipHeadEmpty(cpss0) IN
    IF Len(cpss) = 0 THEN [err |-> "nil", cps |-> <<>>]
    ELSE IF Len(cpss) = 1 THEN [err |-> "nil", cps |-> cpss[1]]
    ELSE LET result == cpss[1]
             rest == Tail(cpss)
             merged == [i \in 1..Len(result) |-> MergeRest(result[i], i, rest)]
         IN  IF \E i \in 1..Len(result) : merged[i].err # "nil"
             THEN [err |-> "panic", cps |-> <<>>]
             ELSE [err |-> "nil", cps |-> [i \in 1..Len(result) |-> merged[i].profile]]

(***************************************************************************)
(* dumpcp: the text written to the output file, line by line.              *)
(***************************************************************************)
\* fmt.Fprintf(w, "mode: %v\n", cps[0].Mode)
HeaderLine(m) == [header |-> m]

\* dumpcp whose block lines give the count before the statement count.
dumpcpCountFirst(cps) ==
    IF Len(cps) = 0 THEN <<>>
    ELSE <<HeaderLine(cps[1].Mode)>> \o
         Concat([k \in 1..Len(cps) |->
             [j \in 1..Len(cps[k].Blocks) |->
                 LET b == cps[k].Blocks[j] IN
                 Line(cps[k].FileName, b.StartLine, b.StartCol, b.EndLine,
                      b.EndCol, b.Count, b.NumStmt)]])

dumpcp(cps) ==
    IF Len(cps) = 0 THEN <<>>
    ELSE <<HeaderLine(cps[1].Mode)>> \o
         Concat([k \in 1..Len(cps) |->
             [j \in 1..Len(cps[k].Blocks) |->
                 LET b == cps[k].Blocks[j] IN
                 Line(cps[k].FileName, b.StartLine, b.StartCol, b.EndLine,
                      b.EndCol, b.NumStmt, b.Count)]])

(***************************************************************************)
(* part_000: run, one package at a time.                                   *)
(***************************************************************************)
VARIABLES
    coverprofile,   \* the -coverprofile flag: the output path, "" when unset
    covermode,      \* the -covermode flag, "" when unset
    race,           \* the -race flag
    pc,             \* where run is: "start", "loop", "dump", "return", "done"
    pkgs,           \* the packages to test, after resolution
    idx,            \* the loop's position in pkgs (1-based)
    state,          \* per package: pending, no-tests, passed, failed, execution-error
    tmp,            \* the temporary raw profiles on disk: name -> content
    profiles,       \* run's profiles slice: names of raw profile files
    hasFailedTest,
    cp,             \* the profiles mergeProfiles returned
    mergeErr,       \* the error mergeProfiles returned, "none" before the call
    dumped,         \* history: dumpcp was called
    created,        \* whether os.Create made (truncated) the output file
    out,            \* the lines written to the output file
    runErr,         \* what run returned: "running", "nil", "error", "ExitError"
    exitCode,       \* the process exit status, -1 while running
    started,        \* history: the packages "go test" was started for, in order
    written,        \* history: per package, the profile file its run wrote (or NoFile)
    runs,           \* SpecMerge: the drawn raw profiles, one per run (or NoFile)
    merged          \* SpecMerge: revision -> what its mergeProfiles returned

vars == <<coverprofile, covermode, race, pc, pkgs, idx, state, tmp, profiles,
          hasFailedTest, cp, mergeErr, dumped, created, out, runErr, exitCode, started, written,
          runs, merged>>

\* The variables of the other specifications.
others == <<runs, merged>>

\* What "go list" can print for the patterns: line k names package k, which
\* lies under a vendor directory or not.
GoListOutputs == UNION {[1..n -> {"pkg", "vendor"}] : n \in 0..MaxPkgs}

RECURSIVE NonVendor(_, _)
\* part_000:165-181 getPkgs: the listed packages that are not vendored, from
\* line k on.
NonVendor(listed, k) ==
    IF k > Len(listed) THEN <<>>
    ELSE IF listed[k] = "vendor" THEN NonVendor(listed, k + 1)
    ELSE <<k>> \o NonVendor(listed, k + 1)

getPkgs(listed) == NonVendor(listed, 1)

\* The package "." (package k of the pattern is k >= 1).
DotPkg == 0

\* What one "go test" run can leave in its -coverprofile file.
LineA == Line("a.go", 1, 1, 2, 2, 1, 1)
\* The same block as LineA, of a build that counts two statements in it.
LineA2 == Line("a.go", 1, 1, 2, 2, 2, 1)

LineB == Line("b.go", 1, 1, 2, 2, 1, 1)

RunLines == {a \o b : a \in {<<>>, <<LineA>>, <<LineA2>>}, b \in {<<>>, <<LineB>>}}

RunFiles == {EmptyFile} \cup {RawFile(m, ls) : m \in Modes, ls \in RunLines}

Init ==
    /\ coverprofile \in {"", "coverage.out"}
    /\ covermode \in {""} \cup Modes
    /\ race \in BOOLEAN
    /\ pc = "start"
    /\ pkgs = <<>>
    /\ idx = 1
    /\ state = <<>>
    /\ tmp = <<>>
    /\ profiles = <<>>
    /\ hasFailedTest = FALSE
    /\ cp = <<>>
    /\ mergeErr = "none"
    /\ dumped = FALSE
    /\ created = FALSE
    /\ out = <<>>
    /\ runErr = "running"
    /\ exitCode = -1
    /\ started = <<>>
    /\ written = <<>>
    /\ runs = <<>>
    /\ merged = <<>>

\* main: the exit status for what run returned.
ExitCodeOf(err, code) ==
    IF err = "nil" THEN 0 ELSE IF err = "ExitError" THEN code ELSE 1

\* run returns err without the deferred os.Remove calls.
ReturnKeepsFiles(err, code) ==
    /\ runErr' = err
    /\ exitCode' = ExitCodeOf(err, code)
    /\ tmp' = tmp
    /\ pc' = "done"

\* run returns err: the deferred os.Remove of every appended profile runs, and
\* main exits.
Return(err, code) ==
    /\ runErr' = err
    /\ exitCode' = ExitCodeOf(err, code)
    /\ tmp' = [n \in DOMAIN tmp \ {profiles[k] : k \in 1..Len(profiles)} |-> tmp[n]]
    /\ pc' = "done"

\* part_000:77-80: coverprofile == "" prints the usage and exits with 2.
Usage ==
    /\ pc = "start"
    /\ coverprofile = ""
    /\ pc' = "done"
    /\ runErr' = "usage"
    /\ exitCode' = 2
    /\ UNCHANGED <<coverprofile, covermode, race, pkgs, idx, state, tmp, profiles,
                   hasFailedTest, cp, mergeErr, dumped, created, out, started, written, others>>

\* part_000:81-83
RaceError ==
    /\ pc = "start"
    /\ coverprofile # ""
    /\ race /\ covermode # "" /\ covermode # "atomic"
    /\ Return("error", 1)
    /\ UNCHANGED <<coverprofile, covermode, race, pkgs, idx, state, profiles,
                   hasFailedTest, cp, mergeErr, dumped, created, out, started, written, others>>

\* run without the default package.
DefaultPkgsNone(ps) == ps

\* part_000:99-101: pkgs = []string{"."} when no package was resolved.
DefaultPkgs(ps) == IF Len(ps) = 0 THEN <<DotPkg>> ELSE ps

RunGuard ==
    /\ pc = "start"
    /\ coverprofile # ""
    /\ ~(race /\ covermode # "" /\ covermode # "atomic")

\* part_000:85-88: os.Create fails and run returns its error.
CreateError ==
    /\ RunGuard
    /\ Return("error", 1)
    /\ UNCHANGED <<coverprofile, covermode, race, pkgs, idx, state, profiles,
                   hasFailedTest, cp, mergeErr, dumped, created, out, started, written, others>>

\* part_000:85-96: the output file is created, then getPkgs fails.
ResolveError ==
    /\ RunGuard
    /\ created' = TRUE
    /\ Return("error", 1)
    /\ UNCHANGED <<coverprofile, covermode, race, pkgs, idx, state, profiles,
                   hasFailedTest, cp, mergeErr, dumped, out, started, written, others>>

\* part_000:85-105: the output file is created and the packages are resolved.
Resolve ==
    /\ RunGuard
    /\ created' = TRUE
    /\ \E listed \in GoListOutputs :
          pkgs' = DefaultPkgs(getPkgs(listed))
    /\ state' = [k \in 1..Len(pkgs') |-> "pending"]
    /\ pc' = "loop"
    /\ UNCHANGED <<coverprofile, covermode, race, idx, tmp, profiles,
                   hasFailedTest, cp, mergeErr, dumped, out, runErr, exitCode, started, written, others>>

\* The name tmpProfileName gives the k-th iteration; NoName is the name "".
TmpName(k) == k

NoName == 0

\* coverage that reports a package without tests as not successful.
coverageNoTestsFails(name, cmdOk, exist) ==
    IF ~cmdOk
    THEN IF ~exist
         THEN [coverprofile |-> NoName, success |-> FALSE, err |-> "failed to run"]
         ELSE [coverprofile |-> name, success |-> FALSE, err |-> "nil"]
    ELSE IF ~exist
         THEN [coverprofile |-> NoName, success |-> FALSE, err |-> "nil"]
         ELSE [coverprofile |-> name, success |-> TRUE, err |-> "nil"]

\* part_000:188-220: what coverage returns for the temporary name when cmd.Run
\* ended with or without an error and the profile file exists or not.
coverage(name, cmdOk, exist) ==
    IF ~cmdOk
    THEN IF ~exist
         THEN [coverprofile |-> NoName, success |-> FALSE, err |-> "failed to run"]
         ELSE [coverprofile |-> name, success |-> FALSE, err |-> "nil"]
    ELSE IF ~exist
         THEN [coverprofile |-> NoName, success |-> TRUE, err |-> "nil"]
         ELSE [coverprofile |-> name, success |-> TRUE, err |-> "nil"]

\* The terminal state of a package's run.
TerminalState(cmdOk, exist) ==
    IF cmdOk THEN (IF exist THEN "passed" ELSE "no-tests")
    ELSE (IF exist THEN "failed" ELSE "execution-error")

\* part_000:106-120: one iteration of the loop.  "go test" ends with or without
\* an error (cmdOk) and leaves the profile file or not.
Iterate(cmdOk, exist, file) ==
    /\ pc = "loop"
    /\ idx <= Len(pkgs)
    /\ LET name == TmpName(idx)
           r == coverage(name, cmdOk, exist)
       IN  /\ started' = Append(started, pkgs[idx])
           /\ tmp' = IF exist
                     THEN [n \in DOMAIN tmp \cup {name} |->
                              IF n = name THEN file ELSE tmp[n]]
                     ELSE tmp
           /\ hasFailedTest' = (hasFailedTest \/ ~r.success)
           /\ profiles' = IF r.err = "nil" /\ r.coverprofile # NoName
                          THEN Append(profiles, r.coverprofile)
                          ELSE profiles
           /\ state' = [state EXCEPT ![idx] = TerminalState(cmdOk, exist)]
           /\ written' = Append(written, IF exist THEN file ELSE NoFile)
    /\ idx' = idx + 1
    /\ UNCHANGED <<coverprofile, covermode, race, pc, pkgs, cp, mergeErr, dumped,
                   created, out, runErr, exitCode, others>>

\* "go test" passes and writes the profile.
Passed ==
    /\ pc = "loop"
    /\ \E file \in RunFiles : Iterate(TRUE, TRUE, file)

\* "go test" fails and still writes the profile.
Failed ==
    /\ pc = "loop"
    /\ \E file \in RunFiles : Iterate(FALSE, TRUE, file)

\* "go test" finds no test files and writes no profile.
NoTests ==
    /\ pc = "loop"
    /\ Iterate(TRUE, FALSE, EmptyFile)

\* "go test" cannot run (or fails without a profile).
ExecutionError ==
    /\ pc = "loop"
    /\ Iterate(FALSE, FALSE, EmptyFile)

\* The contents of the files that profiles names, as os.Open finds them.
ProfileFiles ==
    [k \in 1..Len(profiles) |->
        IF profiles[k] \in DOMAIN tmp THEN tmp[profiles[k]] ELSE NoFile]

\* part_000:121-124: mergeProfiles fails and run returns the ExitError.
MergeError ==
    /\ pc = "loop"
    /\ idx > Len(pkgs)
    /\ mergeProfiles(ProfileFiles, covermode).err # "nil"
    /\ mergeErr' = mergeProfiles(ProfileFiles, covermode).err
    /\ Return("ExitError", 1)
    /\ UNCHANGED <<coverprofile, covermode, race, pkgs, idx, state, profiles,
                   hasFailedTest, cp, dumped, created, out, started, written, others>>

\* part_000:121: mergeProfiles returns the merged profiles.
Merge ==
    /\ pc = "loop"
    /\ idx > Len(pkgs)
    /\ LET m == mergeProfiles(ProfileFiles, covermode)
       IN  /\ m.err = "nil"
           /\ cp' = m.cps
           /\ mergeErr' = m.err
    /\ pc' = "dump"
    /\ UNCHANGED <<coverprofile, covermode, race, pkgs, idx, state, tmp, profiles,
                   hasFailedTest, dumped, created, out, runErr, exitCode, started, written, others>>

\* part_000:125
Dump ==
    /\ pc = "dump"
    /\ out' = out \o dumpcp(cp)
    /\ dumped' = TRUE
    /\ pc' = "return"
    /\ UNCHANGED <<coverprofile, covermode, race, pkgs, idx, state, tmp, profiles,
                   hasFailedTest, cp, mergeErr, created, runErr, exitCode, started, written, others>>

\* part_000:126-129
ReturnFailed ==
    /\ pc = "return"
    /\ hasFailedTest
    /\ Return("ExitError", 1)
    /\ UNCHANGED <<coverprofile, covermode, race, pkgs, idx, state, profiles,
                   hasFailedTest, cp, mergeErr, dumped, created, out, started, written, others>>

ReturnNil ==
    /\ pc = "return"
    /\ ~hasFailedTest
    /\ Return("nil", 0)
    /\ UNCHANGED <<coverprofile, covermode, race, pkgs, idx, state, profiles,
                   hasFailedTest, cp, mergeErr, dumped, created, out, started, written, others>>

Next ==
    \/ Usage
    \/ RaceError
    \/ CreateError
    \/ ResolveError
    \/ Resolve
    \/ Passed
    \/ Failed
    \/ NoTests
    \/ ExecutionError
    \/ MergeError
    \/ Merge
    \/ Dump
    \/ ReturnFailed
    \/ ReturnNil

Spec == Init /\ [][Next]_vars

(***************************************************************************)
(* The three mergeProfiles on drawn collections of run profiles.           *)
(***************************************************************************)
\* a.go has two blocks and b.go one.
LinesA(c1, c2) == <<Line("a.go", 1, 1, 2, 2, 1, c1), Line("a.go", 3, 1, 4, 2, 2, c2)>>

LinesB(c) == <<Line("b.go", 1, 1, 2, 2, 1, c)>>

\* The profiles one run can leave: none, or one of mode m over a.go, b.go or
\* both, every file with its one block structure.
MergeRuns(m) ==
    {NoFile} \cup
    ({RawFile(m, a \o b) : a \in {<<>>, LinesA(0, 1), LinesA(1, 0)},
                           b \in {<<>>, LinesB(1)}} \ {RawFile(m, <<>>)})

\* Runs that may disagree on a.go: one block less, another statement count,
\* another position of the second block.
MismatchRuns(m) ==
    MergeRuns(m) \cup
    {RawFile(m, a) : a \in {<<Line("a.go", 1, 1, 2, 2, 1, 1)>>,
                            <<Line("a.go", 1, 1, 2, 2, 3, 1), Line("a.go", 3, 1, 4, 2, 2, 1)>>,
                            <<Line("a.go", 1, 1, 2, 2, 1, 1), Line("a.go", 5, 1, 6, 2, 2, 1)>>}}

\* The variables of run, which the merge specifications leave alone.
runVars == <<coverprofile, race, pc, pkgs, idx, state, tmp, profiles,
             hasFailedTest, cp, mergeErr, dumped, created, out, runErr, exitCode, started, written>>

IdleRun ==
    /\ coverprofile = "coverage.out"
    /\ race = FALSE
    /\ pc = "merge"
    /\ pkgs = <<>>
    /\ idx = 1
    /\ state = <<>>
    /\ tmp = <<>>
    /\ profiles = <<>>
    /\ hasFailedTest = FALSE
    /\ cp = <<>>
    /\ mergeErr = "none"
    /\ dumped = FALSE
    /\ created = FALSE
    /\ out = <<>>
    /\ runErr = "running"
    /\ exitCode = -1
    /\ started = <<>>
    /\ written = <<>>

InitMerge ==
    /\ IdleRun
    /\ merged = <<>>
    /\ \E m \in Modes :
          /\ covermode \in {"", m}
          /\ \E n \in 0..MaxRuns : runs \in [1..n -> MergeRuns(m)]

InitMismatch ==
    /\ IdleRun
    /\ merged = <<>>
    /\ \E m \in Modes :
          /\ covermode = m
          /\ \E n \in 0..MaxRuns : runs \in [1..n -> MismatchRuns(m)]

\* README.md:151-164, main.go:74-80: the cpss slice of run for the runs' files:
\* the parsed profiles of a run, nil for a run that left none.
CpssOf(rs) ==
    [i \in 1..Len(rs) |->
        IF rs[i].mode = "NoFile" THEN <<>> ELSE ParseProfiles(rs[i]).cps]

\* part_000:116-119: the files run appends to profiles.
FilesOf(rs) == SelectSeq(rs, LAMBDA f : f.mode # "NoFile")

Record(rev, result) ==
    /\ pc = "merge"
    /\ rev \notin DOMAIN merged
    /\ merged' = [r \in DOMAIN merged \cup {rev} |->
                     IF r = rev THEN result ELSE merged[r]]
    /\ UNCHANGED <<runVars, covermode, runs>>

MergePart000 ==
    /\ pc = "merge"
    /\ Record("part_000", mergeProfiles(FilesOf(runs), covermode))

MergeReadme ==
    /\ pc = "merge"
    /\ Record("README.md", mergeProfiles_readme(CpssOf(runs)))

MergeMain ==
    /\ pc = "merge"
    /\ Record("main.go", mergeProfiles_main(CpssOf(runs)))

NextMerge ==
    \/ MergePart000
    \/ MergeReadme
    \/ MergeMain

SpecMerge == InitMerge /\ [][NextMerge]_vars

SpecMismatch == InitMismatch /\ [][NextMerge]_vars

(***************************************************************************)
(* Properties of part_000's run (specification Spec).                      *)
(***************************************************************************)
\* The files the contributing profiles name, as the runs wrote them.
Contributed == [k \in 1..Len(profiles) |-> written[profiles[k]]]

\* Two contributing profiles declare different modes.
ModeMismatch ==
    \E i, j \in 1..Len(profiles) :
        /\ Contributed[i].mode \in Modes
        /\ Contributed[j].mode \in Modes
        /\ Contributed[i].mode # Contributed[j].mode

\* No two lines of the written profiles give one block two statement counts.
NumStmtAgree ==
    \A k1, k2 \in 1..Len(written) :
        \A i \in 1..Len(written[k1].lines), j \in 1..Len(written[k2].lines) :
            LET a == written[k1].lines[i]
                b == written[k2].lines[j]
            IN  (a.FileName = b.FileName /\ SamePlace(a, b)) => a.NumStmt = b.NumStmt

\* The mode "go test" writes for the flags buildOptionalTestArgs passes on:
\* -covermode when it is set, and else its default, atomic with -race and set
\* without.
GoTestMode == IF covermode # "" THEN covermode ELSE IF race THEN "atomic" ELSE "set"

\* Every "go test" wrote the mode it was asked for, and all of them
\* instrumented one build of the sources.
GoTestAsAsked ==
    /\ \A k \in 1..Len(written) :
          written[k].mode \in Modes => written[k].mode = GoTestMode
    /\ NumStmtAgree

IsBlockLine(l) == "FileName" \in DOMAIN l

\* The output holds a line for the block of line l.
OutputHasBlock(l) ==
    \E j \in 1..Len(out) :
        /\ IsBlockLine(out[j])
        /\ out[j].FileName = l.FileName
        /\ Pos(out[j]) = Pos(l)

\* The output holds the blocks of every package that produced a profile.
OutputHasAllBlocks ==
    \A k \in 1..Len(written) :
        \A i \in 1..Len(written[k].lines) : OutputHasBlock(written[k].lines[i])

SomeFailedWithProfile == \E k \in 1..Len(state) : state[k] = "failed"

\* C2: when two contributing profiles declare different modes, dumpcp is never
\* called, nothing is written to the output file, and run ends with an
\* ExitError of code 1, whatever the order of the profiles and the covermode.
C2_ModeMismatchNoOutput ==
    ModeMismatch =>
        /\ pc \in {"loop", "done"}
        /\ ~dumped
        /\ out = <<>>
        /\ pc = "done" => (mergeErr \notin {"none", "nil"} /\ runErr = "ExitError" /\ exitCode = 1)

\* A run that ended with a count profile followed by a set profile under
\* -covermode=count.
C2_Witness ==
    /\ pc = "done"
    /\ covermode = "count"
    /\ Len(profiles) = 2
    /\ Contributed[1].mode = "count" /\ Contributed[1].lines # <<>>
    /\ Contributed[2].mode = "set" /\ Contributed[2].lines # <<>>

\* C5: in a run whose "go test" processes write what they are asked for,
\* whenever some package failed with a profile, the output holds the blocks of
\* every package that produced a profile (failed ones included) and run
\* returns an ExitError of code 1.
C5_Original ==
    (pc = "done" /\ SomeFailedWithProfile /\ GoTestAsAsked) =>
        /\ OutputHasAllBlocks
        /\ runErr = "ExitError" /\ exitCode = 1

\* C6: given an output path and a successful resolution, the exit status is 0
\* exactly when every package ended passed or no-tests and mergeProfiles
\* returned no error, and 1 otherwise; the failure flag is set exactly by the
\* packages that ended failed or execution-error.
C6_ExitStatus ==
    /\ hasFailedTest <=>
          \E k \in 1..Len(state) : state[k] \in {"failed", "execution-error"}
    /\ (pc = "done" /\ Len(pkgs) > 0) =>
          /\ exitCode \in {0, 1}
          /\ exitCode = 0 <=>
                /\ \A k \in 1..Len(state) : state[k] \in {"passed", "no-tests"}
                /\ mergeErr = "nil"

\* A package without tests beside a passed one: exit status 0.
C6_Witness ==
    /\ pc = "done"
    /\ state = <<"no-tests", "passed">>
    /\ written[2].lines # <<>>
    /\ exitCode = 0

\* The packages whose run left a profile file, in order, up to package n.
RECURSIVE ProducedUpTo(_)
ProducedUpTo(n) ==
    IF n = 0 THEN <<>>
    ELSE IF state[n] # "execution-error" /\ written[n].mode # "NoFile"
         THEN Append(ProducedUpTo(n - 1), TmpName(n))
         ELSE ProducedUpTo(n - 1)

\* C7: in a run whose "go test" processes write what they are asked for, every
\* package is run once in list order, a package contributes a profile exactly
\* when it did not end in execution-error and produced one, and run reaches
\* the merge and the output-writing step.
C7_Original ==
    GoTestAsAsked =>
        /\ started = SubSeq(pkgs, 1, idx - 1)
        /\ profiles = ProducedUpTo(idx - 1)
        /\ (pc = "done" /\ Len(pkgs) > 0) =>
              (idx = Len(pkgs) + 1 /\ mergeErr # "none" /\ dumped)

RunsWithProfile == {r \in 1..Len(runs) : runs[r].mode # "NoFile"}

\* The mode the runs' profiles declare.
ModeOfRuns ==
    IF RunsWithProfile = {} THEN "set"
    ELSE runs[CHOOSE r \in RunsWithProfile : TRUE].mode

FilesOfRun(r) == {runs[r].lines[i].FileName : i \in 1..Len(runs[r].lines)}

\* The runs whose profile contains file f.
RunsWith(f) == {r \in RunsWithProfile : f \in FilesOfRun(r)}

\* The blocks of file f in the profile of run r.
RunBlocks(r, f) == ParseFile(runs[r].mode, runs[r].lines, f).blocks

PosList(bs) == [i \in 1..Len(bs) |-> Pos(bs[i])]

\* All runs declare one mode and agree on every file's block structure.
SameStructure ==
    /\ \A r \in RunsWithProfile : runs[r].mode = ModeOfRuns
    /\ \A f \in {FileNames[i] : i \in 1..Len(FileNames)} :
          \A r1, r2 \in RunsWith(f) : PosList(RunBlocks(r1, f)) = PosList(RunBlocks(r2, f))

RECURSIVE SumCounts(_, _, _)
\* The sum of the counts of block i of f over the runs rs.
SumCounts(rs, f, i) ==
    IF rs = {} THEN 0
    ELSE LET r == CHOOSE r \in rs : TRUE
         IN  RunBlocks(r, f)[i].Count + SumCounts(rs \ {r}, f, i)

\* The merged count of block i of f by the mode's rule.
ExpectedCount(f, i) ==
    IF ModeOfRuns = "set"
    THEN IF \E r \in RunsWith(f) : RunBlocks(r, f)[i].Count # 0 THEN 1 ELSE 0
    ELSE SumCounts(RunsWith(f), f, i)

\* Every count of the profiles cps is the expected one.
CountsByRule(cps) ==
    \A k \in 1..Len(cps) :
        \A i \in 1..Len(cps[k].Blocks) :
            cps[k].Blocks[i].Count = ExpectedCount(cps[k].FileName, i)

\* What the revision rev returned, once it has merged without an error.
Merged(rev) == rev \in DOMAIN merged /\ merged[rev].err = "nil"

\* C1: for runs of one mode and one block structure per file, every merged
\* count of README.md's and of part_000's mergeProfiles is, under set, 1 if
\* some run containing the file has a non-zero count at that block and 0
\* otherwise, and under count or atomic the sum of the counts at that block
\* over the runs that contain the file.
C1_CombineRule ==
    \A rev \in {"README.md", "part_000"} :
        (Merged(rev) /\ SameStructure) => CountsByRule(merged[rev].cps)

\* Three set runs: a.go in the first and the last, with its first block hit
\* only by the last; the merged counts are 1 and 1.
C1_Witness ==
    /\ Merged("part_000") /\ Merged("README.md")
    /\ ModeOfRuns = "set"
    /\ Len(runs) = 3
    /\ runs[1].lines = LinesA(0, 1)
    /\ runs[2].lines = LinesB(1)
    /\ runs[3].lines = LinesA(1, 0) \o LinesB(1)
    /\ merged["part_000"].cps[1].Blocks[1].Count = 1
    /\ merged["README.md"].cps[1].Blocks[2].Count = 1

\* Two runs contain one file with different block lists.
StructuralMismatch ==
    \E f \in {FileNames[i] : i \in 1..Len(FileNames)} :
        \E r1, r2 \in RunsWith(f) : PosList(RunBlocks(r1, f)) # PosList(RunBlocks(r2, f))

\* C3 as stated: when two runs contain one file with block lists that differ
\* in length, position or statement count, part_000's mergeProfiles returns an
\* error and never a merged profile.
C3_Original ==
    ("part_000" \in DOMAIN merged /\ StructuralMismatch) =>
        merged["part_000"].err \notin {"nil", "panic"}

\* The file names of the profiles cps.
NamesOf(cps) == {cps[k].FileName : k \in 1..Len(cps)}

AllFilesOfRuns == UNION {FilesOfRun(r) : r \in RunsWithProfile}

\* C4 as stated, of main.go's mergeProfiles: it succeeds, the merged file names
\* are the union of the runs' file names, and every file gets its counts from
\* the runs that contain it.
C4_Original ==
    "main.go" \in DOMAIN merged =>
        /\ merged["main.go"].err = "nil"
        /\ NamesOf(merged["main.go"].cps) = AllFilesOfRuns
        /\ CountsByRule(merged["main.go"].cps)

\* The place of the line of block b of file f in text, 0 when it has none.
PlaceIn(text, f, b) ==
    IF \E j \in 2..Len(text) : text[j].FileName = f /\ Pos(text[j]) = Pos(b)
    THEN CHOOSE j \in 2..Len(text) : text[j].FileName = f /\ Pos(text[j]) = Pos(b)
    ELSE 0

\* text is one header line and then block lines, the file names never
\* decreasing (so each file is one group and the groups ascend), and the
\* blocks of every file in the order every run's profile has them in.
OutputOrdered(text) ==
    /\ text # <<>> => ~IsBlockLine(text[1])
    /\ \A j \in 2..Len(text) : IsBlockLine(text[j])
    /\ \A j \in 2..(Len(text) - 1) :
          FileRank(text[j].FileName) <= FileRank(text[j + 1].FileName)
    /\ \A j1, j2 \in 2..Len(text) :
          (j1 # j2 /\ text[j1].FileName = text[j2].FileName) => Pos(text[j1]) # Pos(text[j2])
    /\ \A r \in RunsWithProfile : \A f \in FilesOfRun(r) :
          LET bs == RunBlocks(r, f) IN
          \A i1, i2 \in 1..Len(bs) :
              (i1 < i2 /\ PlaceIn(text, f, bs[i1]) # 0 /\ PlaceIn(text, f, bs[i2]) # 0)
                  => PlaceIn(text, f, bs[i1]) < PlaceIn(text, f, bs[i2])

\* C8: in what dumpcp writes for the result of any of the three mergeProfiles,
\* the header line comes first and once, every file is one group of lines, the
\* groups ascend by file name and the blocks of a file keep the order of the
\* run profiles, in whatever order the runs come.
C8_OutputOrder ==
    \A rev \in {"main.go", "README.md", "part_000"} :
        Merged(rev) => OutputOrdered(dumpcp(merged[rev].cps))

\* b.go is covered by the first run and a.go only by the second: a.go's lines
\* still come first in README.md's and part_000's output.
C8_Witness ==
    /\ Merged("README.md") /\ Merged("part_000")
    /\ Len(runs) = 2
    /\ runs[1].lines = LinesB(1)
    /\ runs[2].lines = LinesA(1, 0)
    /\ Len(dumpcp(merged["README.md"].cps)) = 4
    /\ dumpcp(merged["README.md"].cps)[2].FileName = "a.go"
    /\ dumpcp(merged["part_000"].cps)[4].FileName = "b.go"

Perms(n) == {p \in [1..n -> 1..n] : \A i, j \in 1..n : i # j => p[i] # p[j]}

Permuted(rs, p) == [i \in 1..Len(rs) |-> rs[p[i]]]

\* The profile file with the text dumpcp wrote.
AsFile(text) == IF text = <<>> THEN EmptyFile ELSE RawFile(text[1].header, Tail(text))

\* part_000's mergeProfiles of the runs rs.
MergeFiles(rs) == mergeProfiles(FilesOf(rs), covermode)

\* part_000: merging the written merges of the first k runs and of the rest.
GroupedFiles(k) ==
    LET g1 == MergeFiles(SubSeq(runs, 1, k))
        g2 == MergeFiles(SubSeq(runs, k + 1, Len(runs)))
    IN  mergeProfiles(<<AsFile(dumpcp(g1.cps)), AsFile(dumpcp(g2.cps))>>, covermode)

\* README.md: merging the merges of the first k runs and of the rest.
GroupedCpss(k) ==
    mergeProfiles_readme(<<mergeProfiles_readme(CpssOf(SubSeq(runs, 1, k))).cps,
                           mergeProfiles_readme(CpssOf(SubSeq(runs, k + 1, Len(runs)))).cps>>)

\* C10: for runs of one mode and one block structure per file, part_000's and
\* README.md's mergeProfiles return the same files, blocks and counts for every
\* permutation of the runs and for every split of the runs into two groups
\* that are merged first.
C10_OrderIndependent ==
    SameStructure =>
        /\ DOMAIN merged = {"part_000"} =>
              /\ \A p \in Perms(Len(runs)) : MergeFiles(Permuted(runs, p)) = merged["part_000"]
              /\ merged["part_000"].err = "nil" =>
                    \A k \in 0..Len(runs) : GroupedFiles(k) = merged["part_000"]
        /\ DOMAIN merged = {"README.md"} =>
              /\ \A p \in Perms(Len(runs)) :
                    mergeProfiles_readme(CpssOf(Permuted(runs, p))) = merged["README.md"]
              /\ \A k \in 0..Len(runs) : GroupedCpss(k) = merged["README.md"]

\* Three count runs with different counts for a.go, merged to the sums 1 and 2.
C10_Witness ==
    /\ Merged("part_000")
    /\ ModeOfRuns = "count"
    /\ Len(runs) = 3
    /\ runs[1].lines = LinesA(0, 1)
    /\ runs[2].lines = LinesA(1, 0) \o LinesB(1)
    /\ runs[3].lines = LinesA(0, 1)
    /\ merged["part_000"].cps[1].Blocks[1].Count = 1
    /\ merged["part_000"].cps[1].Blocks[2].Count = 2

(***************************************************************************)
(* The text of a profile, character by character: what dumpcp's            *)
(* fmt.Fprintf calls print for its lines, and how cover.ParseProfiles      *)
(* reads such a text back.                                                 *)
(***************************************************************************)
DigitChars == <<"0", "1", "2", "3", "4", "5", "6", "7", "8", "9">>

IsDigit(c) == \E i \in 1..Len(DigitChars) : DigitChars[i] = c

DigitValue(c) == (CHOOSE i \in 1..Len(DigitChars) : DigitChars[i] = c) - 1

RECURSIVE FormatInt(_)
\* %d of a non-negative integer.
FormatInt(n) ==
    IF n < Len(DigitChars) THEN <<DigitChars[n + 1]>>
    ELSE FormatInt(n \div Len(DigitChars)) \o <<DigitChars[(n % Len(DigitChars)) + 1]>>

\* %s of a file name.
NameChars(f) ==
    CASE f = "a.go" -> <<"a", ".", "g", "o">>
      [] f = "b.go" -> <<"b", ".", "g", "o">>
      [] OTHER -> <<"?">>

\* blockFmt = "%s:%d.%d,%d.%d %d %d\n", without the newline that ends the line.
FormatBlockLine(l) ==
    NameChars(l.FileName) \o <<":">> \o FormatInt(l.StartLine) \o <<".">> \o
    FormatInt(l.StartCol) \o <<",">> \o FormatInt(l.EndLine) \o <<".">> \o
    FormatInt(l.EndCol) \o <<" ">> \o FormatInt(l.NumStmt) \o <<" ">> \o FormatInt(l.Count)

\* "mode: %v\n", without the newline.
FormatHeaderLine(m) == SubSeq(ModeLine(m), 1, Len(ModeLine(m)) - 1)

\* The characters of the lines dumpcp writes.
FormatText(text) ==
    [j \in 1..Len(text) |->
        IF IsBlockLine(text[j]) THEN FormatBlockLine(text[j])
        ELSE FormatHeaderLine(text[j].header)]

RECURSIVE ReadInt(_, _, _)
\* The number that starts at place i of s: its value so far v, the place after
\* its last digit.
ReadInt(s, i, v) ==
    IF i <= Len(s) /\ IsDigit(s[i])
    THEN ReadInt(s, i + 1, v * Len(DigitChars) + DigitValue(s[i]))
    ELSE [v |-> v, next |-> i]

\* A number at place i of s followed by the character sep (or by the end of
\* the line when sep is ""): [ok, v, next].
ReadField(s, i, sep) ==
    LET r == ReadInt(s, i, 0)
    IN  IF r.next = i THEN [ok |-> FALSE, v |-> 0, next |-> i]
        ELSE IF sep = ""
             THEN [ok |-> r.next = Len(s) + 1, v |-> r.v, next |-> r.next]
             ELSE [ok |-> r.next <= Len(s) /\ s[r.next] = sep, v |-> r.v, next |-> r.next + 1]

\* The file name with the characters cs.
NameOfChars(cs) ==
    IF \E i \in 1..Len(FileNames) : NameChars(FileNames[i]) = cs
    THEN FileNames[CHOOSE i \in 1..Len(FileNames) : NameChars(FileNames[i]) = cs]
    ELSE "?"

\* The mode with the characters cs.
ModeOfChars(cs) ==
    IF \E m \in Modes : ModeName(m) = cs
    THEN CHOOSE m \in Modes : ModeName(m) = cs
    ELSE "?"

\* One block line read back, as the pattern
\* ^(.+):([0-9]+).([0-9]+),([0-9]+).([0-9]+) ([0-9]+) ([0-9]+)$ matches it: the
\* name ends at the last colon of the line.
ParseBlockLine(s) ==
    LET colons == {i \in 1..Len(s) : s[i] = ":"}
    IN  IF colons = {} THEN [ok |-> FALSE, line |-> <<>>]
        ELSE LET c == CHOOSE i \in colons : \A j \in colons : j <= i
                 f1 == ReadField(s, c + 1, ".")
                 f2 == ReadField(s, f1.next, ",")
                 f3 == ReadField(s, f2.next, ".")
                 f4 == ReadField(s, f3.next, " ")
                 f5 == ReadField(s, f4.next, " ")
                 f6 == ReadField(s, f5.next, "")
             IN  IF c > 1 /\ f1.ok /\ f2.ok /\ f3.ok /\ f4.ok /\ f5.ok /\ f6.ok
                 THEN [ok |-> TRUE,
                       line |-> Line(NameOfChars(SubSeq(s, 1, c - 1)),
                                     f1.v, f2.v, f3.v, f4.v, f5.v, f6.v)]
                 ELSE [ok |-> FALSE, line |-> <<>>]

ModePrefix == <<"m", "o", "d", "e", ":", " ">>

\* The lines of a text read as cover.ParseProfiles reads a file: the first line
\* is "mode: " and the mode, every other line a block line.  [err, file].
ParseText(chars) ==
    IF chars = <<>> THEN [err |-> "nil", file |-> EmptyFile]
    ELSE LET first == chars[1]
             rest == [j \in 1..(Len(chars) - 1) |-> ParseBlockLine(chars[j + 1])]
         IN  IF \/ Len(first) <= Len(ModePrefix)
                \/ SubSeq(first, 1, Len(ModePrefix)) # ModePrefix
             THEN [err |-> "bad mode line", file |-> EmptyFile]
             ELSE IF \E j \in 1..Len(rest) : ~rest[j].ok
             THEN [err |-> "line doesn't match expected format", file |-> EmptyFile]
             ELSE [err |-> "nil",
                   file |-> RawFile(ModeOfChars(SubSeq(first, Len(ModePrefix) + 1, Len(first))),
                                    [j \in 1..Len(rest) |-> rest[j].line])]

\* cover.ParseProfiles of the text dumpcp writes for the profiles cps.
Reparsed(cps) ==
    LET t == ParseText(FormatText(dumpcp(cps)))
    IN  IF t.err # "nil" THEN [err |-> t.err, cps |-> <<>>]
        ELSE ParseProfiles(t.file)

\* C11: for every merged profile part_000's mergeProfiles returns, parsing the
\* text dumpcp writes for it gives the same profiles back: the same mode, the
\* same files, and per file the same blocks with the same positions, statement
\* counts and counts; for no profiles at all dumpcp writes nothing and the
\* parse gives no profiles.
C11_RoundTrip ==
    Merged("part_000") =>
        Reparsed(merged["part_000"].cps) = [err |-> "nil", cps |-> merged["part_000"].cps]

\* Two count runs merged into a.go with counts 1 and 1 and b.go with count 2,
\* written as four lines and read back.
C11_Witness ==
    /\ Merged("part_000")
    /\ ModeOfRuns = "count"
    /\ Len(merged["part_000"].cps) = 2
    /\ merged["part_000"].cps[2].Blocks[1].Count = 2
    /\ Len(FormatText(dumpcp(merged["part_000"].cps))) = 4
    /\ FormatText(dumpcp(merged["part_000"].cps))[4] =
          <<"b", ".", "g", "o", ":", "1", ".", "1", ",", "2", ".", "2", " ", "1", " ", "2">>
    /\ Reparsed(merged["part_000"].cps).cps = merged["part_000"].cps

C13_Original ==
    (pc = "done" /\ mergeErr # "none" /\ GoTestAsAsked) =>
        /\ mergeErr # "malformed coverage profile"
        /\ (race /\ covermode = "" /\ \E k \in 1..Len(profiles) : Contributed[k].lines # <<>>) =>
              (dumped /\ out # <<>> /\ out[1] = HeaderLine("atomic"))

====
